---- MODULE Spec2Model ----
(***************************************************************************)
(* A model of the bug-fixer utilities: devops.py (bugs.json presented as   *)
(* Azure DevOps work items), github_issues.py (bugs.json converted to      *)
(* GitHub issues) and verify_bugs.py (bugs.json loaded and listed).        *)
(*                                                                         *)
(* A Python str is a sequence of one-character strings, so that lower(),   *)
(* replace(), join() and f-string interpolation are computed character by  *)
(* character.  A Python dict is a function whose DOMAIN is its key set; a  *)
(* Python list is a sequence.  One behaviour is one run of one script on   *)
(* one bugs.json.                                                          *)
(***************************************************************************)
EXTENDS Integers, Sequences, FiniteSets, TLC

VARIABLES
    script,             \* which program this behaviour runs
    file,               \* the content of bugs.json
    pc,                 \* position of the running program
    BUGS,               \* devops.py: the module global BUGS
    SAMPLE_WORK_ITEMS,  \* devops.py: the module global SAMPLE_WORK_ITEMS
    now,                \* the wall clock read by datetime.datetime.now()
    calls,              \* the last two get_work_item / convert calls: arguments and result
    args,               \* github_issues.main: the parsed command line and environment
    bugs,               \* github_issues.main / verify_bugs.main: the local variable bugs
    idx,                \* github_issues.main: number of bugs the for loop has processed
    labels,             \* create_github_labels: labels the for loop has still to visit
    existing_labels,    \* create_github_labels: the local variable existing_labels
    response,           \* create_github_labels: what the GET of the labels answered
    http,               \* the HTTP requests sent so far, in order
    out                 \* the lines printed so far, in order

vars == <<script, file, pc, BUGS, SAMPLE_WORK_ITEMS, now, calls, args, bugs, idx,
          labels, existing_labels, response, http, out>>

-----------------------------------------------------------------------------
(* Bounds of the model.                                                    *)

\* longest bugs sequence of a multi-record bugs.json
MaxBugs == 2
\* longest steps sequence of a record
MaxSteps == 3
\* longest lineNumbers sequence of a record
MaxLines == 2
\* last clock value at which a mapper call is made
MaxClock == 2

-----------------------------------------------------------------------------
(* Python built-ins.                                                       *)

\* the empty dict {}
EmptyDict == << >>

\* dict.get(k, default)
Get(d, k, default) == IF k \in DOMAIN d THEN d[k] ELSE default

\* dict restricted to the keys in S (a record with some keys absent)
Restrict(d, S) == [k \in (S \cap DOMAIN d) |-> d[k]]

\* truth value of a str or list: non-empty
Truthy(v) == Len(v) > 0

Digit(d) ==
    CASE d = 0 -> "0" [] d = 1 -> "1" [] d = 2 -> "2" [] d = 3 -> "3" [] d = 4 -> "4"
      [] d = 5 -> "5" [] d = 6 -> "6" [] d = 7 -> "7" [] d = 8 -> "8" [] d = 9 -> "9"

\* str(n) of a non-negative int
RECURSIVE Str(_)
Str(n) == IF n < 10 THEN <<Digit(n)>> ELSE Str(n \div 10) \o <<Digit(n % 10)>>

\* sep.join(parts)
RECURSIVE Join(_, _)
Join(sep, parts) ==
    IF Len(parts) = 0 THEN << >>
    ELSE IF Len(parts) = 1 THEN parts[1]
    ELSE parts[1] \o sep \o Join(sep, Tail(parts))

\* map(str, ints)
MapStr(ints) == [i \in 1..Len(ints) |-> Str(ints[i])]

LowerChar(c) ==
    CASE c = "A" -> "a" [] c = "B" -> "b" [] c = "C" -> "c" [] c = "D" -> "d"
      [] c = "E" -> "e" [] c = "F" -> "f" [] c = "G" -> "g" [] c = "H" -> "h"
      [] c = "I" -> "i" [] c = "J" -> "j" [] c = "K" -> "k" [] c = "L" -> "l"
      [] c = "M" -> "m" [] c = "N" -> "n" [] c = "O" -> "o" [] c = "P" -> "p"
      [] c = "Q" -> "q" [] c = "R" -> "r" [] c = "S" -> "s" [] c = "T" -> "t"
      [] c = "U" -> "u" [] c = "V" -> "v" [] c = "W" -> "w" [] c = "X" -> "x"
      [] c = "Y" -> "y" [] c = "Z" -> "z" [] OTHER -> c

\* str.lower()
Lower(s) == [i \in 1..Len(s) |-> LowerChar(s[i])]

\* str.replace(a, b) for one-character a and b
Replace(s, a, b) == [i \in 1..Len(s) |-> IF s[i] = a THEN b ELSE s[i]]

\* the lines of a text: str.split("\n")
Lines(s) ==
    LET cuts == {i \in 1..Len(s) : s[i] = "\n"} \cup {0, Len(s) + 1}
        cut(k) == CHOOSE p \in cuts : Cardinality({q \in cuts : q < p}) = k
    IN [k \in 1..(Cardinality(cuts) - 1) |-> SubSeq(s, cut(k - 1) + 1, cut(k) - 1)]

-----------------------------------------------------------------------------
(* bugs.json: the records and the files the model runs on.                 *)

Obj(m) == [t |-> "map", m |-> m]
Num == [t |-> "num"]
Null == [t |-> "null"]
List(items) == [t |-> "list", items |-> items]

\* the optional keys of a BugRecord besides id
OptKeys == {"title", "status", "severity", "assignedTo", "description", "location",
            "lineNumbers", "expectedBehavior", "actualBehavior", "steps", "fix"}

FullRecord ==
    [id |-> <<"B","U","G","-","0","0","1">>, title |-> <<"L","o","g","i","n"," ","f","a","i","l","s">>, status |-> <<"O","p","e","n">>,
     severity |-> <<"C","r","i","t","i","c","a","l">>, assignedTo |-> <<"J","a","n","e"," ","D","o","e">>, description |-> <<"C","r","a","s","h">>,
     location |-> <<"a","p","p",".","j","s">>, lineNumbers |-> <<10, 12>>, expectedBehavior |-> <<"o","k">>,
     actualBehavior |-> <<"e","r","r","o","r">>, steps |-> <<<<"O","p","e","n"," ","a","p","p">>, <<"C","l","i","c","k">>>>, fix |-> <<"A","d","d"," ","c","h","e","c","k">>]

Severities == {<<"C","r","i","t","i","c","a","l">>, <<"H","i","g","h">>, <<"M","e","d","i","u","m">>, <<"L","o","w">>, << >>, <<"c","r","i","t","i","c","a","l">>, <<"U","n","k","n","o","w","n">>, <<"O","p","e","n">>}
Statuses == {<<"O","p","e","n">>, <<"I","n"," ","P","r","o","g","r","e","s","s">>, << >>, <<"C","r","i","t","i","c","a","l">>}
Assignees == {<< >>, <<"B","o","b">>, <<"J","a","n","e"," ","D","o","e">>, <<"A","L"," "," ","B"," ","c">>, <<"j","o",".","e">>}
StepPool == {<<"O","p","e","n"," ","a","p","p">>, <<"C","l","i","c","k">>}
LinePool == {7, 12}

SeqsUpTo(S, n) == UNION {[1..k -> S] : k \in 0..n}

\* every subset of the optional keys absent
SubsetRecords == {Restrict(FullRecord, K \cup {"id"}) : K \in SUBSET OptKeys}

\* one field varied over its values
ValueRecords ==
    {[FullRecord EXCEPT !.severity = s] : s \in Severities}
    \cup {[FullRecord EXCEPT !.status = s] : s \in Statuses}
    \cup {[FullRecord EXCEPT !.assignedTo = s] : s \in Assignees}
    \cup {[FullRecord EXCEPT !.steps = s] : s \in SeqsUpTo(StepPool, MaxSteps)}
    \cup {[FullRecord EXCEPT !.lineNumbers = s] : s \in SeqsUpTo(LinePool, MaxLines)}
    \cup {[FullRecord EXCEPT !.id = s] : s \in {<< >>, <<"1","2","3","4","5">>}}

\* records without an id, the empty record {} among them
NoIdRecords == {EmptyDict, Restrict(FullRecord, OptKeys), [title |-> <<"N","o"," ","i","d">>]}

Records == SubsetRecords \cup ValueRecords \cup NoIdRecords

\* the records of the multi-record files
SmallRecords ==
    {FullRecord,
     [id |-> <<"B","U","G","-","0","0","2">>, title |-> <<"S","l","o","w"," ","p","a","g","e">>, status |-> <<"O","p","e","n">>, severity |-> <<"L","o","w">>],
     [id |-> <<"B","U","G","-","0","0","1">>, title |-> <<"D","u","p","l","i","c","a","t","e"," ","i","d">>, status |-> <<"C","l","o","s","e","d">>],
     EmptyDict}

Elements == {Obj(r) : r \in SmallRecords} \cup {Num}

JsonFile(data) == [kind |-> "json", data |-> data]
BugsFile(items) == JsonFile(Obj([bugs |-> List(items)]))

WellFormedFiles ==
    {BugsFile(<<Obj(r)>>) : r \in Records}
    \cup {BugsFile(s) : s \in SeqsUpTo({Obj(r) : r \in SmallRecords}, MaxBugs)}
    \cup {JsonFile(Obj(EmptyDict))}

MalformedFiles ==
    {[kind |-> "missing"], [kind |-> "invalid"], JsonFile(List(<< >>)), JsonFile(Num),
     JsonFile(Obj([bugs |-> Null]))}
    \cup {BugsFile(s) : s \in {t \in SeqsUpTo(Elements, MaxBugs) : \E i \in 1..Len(t) : t[i] = Num}}

Files == WellFormedFiles \cup MalformedFiles

\* the multi-record files, which github_issues.main and verify_bugs.main run on
SmallFiles ==
    {f \in Files : f.kind = "json" /\ f.data.t = "map" /\ "bugs" \in DOMAIN f.data.m
                   /\ f.data.m.bugs.t = "list"
                   => \A i \in 1..Len(f.data.m.bugs.items) :
                          f.data.m.bugs.items[i] \in Elements}

-----------------------------------------------------------------------------
(* devops.py                                                               *)

\* the outcome of a loader: the returned collection, and whether the except
\* branch printed "Error loading bugs.json"
Loaded(v) == [value |-> v, error |-> FALSE]
Failed(v) == [value |-> v, error |-> TRUE]

\* mutant: the test "if bug_id" is missing, a record without id is keyed by None
bugs_dict_keeps_idless(items) ==
    LET ids == {Get(items[i].m, "id", << >>) : i \in 1..Len(items)}
        last(b) == CHOOSE i \in 1..Len(items) :
                       /\ Get(items[i].m, "id", << >>) = b
                       /\ \A j \in 1..Len(items) : Get(items[j].m, "id", << >>) = b => j <= i
    IN [b \in ids |-> items[last(b)].m]

\* the bugs_dict the for loop of load_bugs_from_json builds: a later record
\* with the same id replaces an earlier one, a record with no or an empty id
\* is skipped
bugs_dict(items) ==
    LET keyed == {i \in 1..Len(items) : Truthy(Get(items[i].m, "id", << >>))}
        ids == {items[i].m.id : i \in keyed}
        last(b) == CHOOSE i \in keyed : /\ items[i].m.id = b
                                        /\ \A j \in keyed : items[j].m.id = b => j <= i
    IN [b \in ids |-> items[last(b)].m]

\* devops.load_bugs_from_json: any exception in the try block gives {}
devops_load_bugs_from_json(f) ==
    IF f.kind # "json" THEN Failed(EmptyDict)                    \* open / json.load
    ELSE IF f.data.t # "map" THEN Failed(EmptyDict)              \* data.get
    ELSE LET bs == Get(f.data.m, "bugs", List(<< >>))
         IN IF bs.t # "list" THEN Failed(EmptyDict)              \* for bug in None
            ELSE IF \E i \in 1..Len(bs.items) : bs.items[i].t # "map"
                 THEN Failed(EmptyDict)                          \* bug.get
            ELSE Loaded(bugs_dict(bs.items))

\* mutant: an unrecognized severity falls through to the lowest priority
_map_severity_to_priority_default_low(severity) ==
    CASE severity = <<"C","r","i","t","i","c","a","l">> -> 1
      [] severity = <<"H","i","g","h">> -> 2
      [] severity = <<"M","e","d","i","u","m">> -> 3
      [] severity = <<"L","o","w">> -> 4
      [] OTHER -> 4

\* _map_severity_to_priority: severity_map.get(severity, 3)
_map_severity_to_priority(severity) ==
    CASE severity = <<"C","r","i","t","i","c","a","l">> -> 1
      [] severity = <<"H","i","g","h">> -> 2
      [] severity = <<"M","e","d","i","u","m">> -> 3
      [] severity = <<"L","o","w">> -> 4
      [] OTHER -> 3

\* datetime.datetime.now().isoformat(): the timestamp of clock value t
isoformat(t) == [iso |-> t]

Person(displayName, uniqueName) ==
    [displayName |-> displayName, uniqueName |-> uniqueName,
     id |-> <<"a","1","b","2","c","3","d","4","-","e","5","f","6","-","7","8","9","0","-","1","2","3","4","-","5","6","7","8","9","0","a","b","c","d","e","f">>]

ApiUrl(organization, project, bug_id) ==
    <<"h","t","t","p","s",":","/","/","d","e","v",".","a","z","u","r","e",".","c","o","m","/">> \o organization \o <<"/">> \o project
        \o <<"/","_","a","p","i","s","/","w","i","t","/","w","o","r","k","I","t","e","m","s","/">> \o bug_id

HtmlUrl(organization, project, bug_id) ==
    <<"h","t","t","p","s",":","/","/","d","e","v",".","a","z","u","r","e",".","c","o","m","/">> \o organization \o <<"/">> \o project
        \o <<"/","_","w","o","r","k","i","t","e","m","s","/","e","d","i","t","/">> \o bug_id

\* mutant: the name is not lowercased
unique_name_keeps_case(bug) ==
    Replace(Get(bug, "assignedTo", <<"u","n","a","s","s","i","g","n","e","d">>), " ", ".") \o <<"@","c","o","m","p","a","n","y",".","c","o","m">>

\* the uniqueName of System.AssignedTo
unique_name(bug) ==
    Replace(Lower(Get(bug, "assignedTo", <<"u","n","a","s","s","i","g","n","e","d">>)), " ", ".") \o <<"@","c","o","m","p","a","n","y",".","c","o","m">>

\* the work item built from a record of BUGS
bug_work_item(bug_id, bug, organization, project, t) ==
    [id |-> bug_id,
     rev |-> 1,
     fields |->
        ("System.Id" :> bug_id)
        @@ ("System.Title" :> Get(bug, "title", <<"N","o"," ","T","i","t","l","e">>))
        @@ ("System.State" :> Get(bug, "status", <<"U","n","k","n","o","w","n">>))
        @@ ("System.CreatedDate" :> isoformat(t))
        @@ ("System.CreatedBy" :> Person(<<"B","u","g"," ","C","r","e","a","t","o","r">>, <<"b","u","g",".","c","r","e","a","t","o","r","@","c","o","m","p","a","n","y",".","c","o","m">>))
        @@ ("System.AssignedTo" :>
               Person(Get(bug, "assignedTo", <<"U","n","a","s","s","i","g","n","e","d">>), unique_name(bug)))
        @@ ("System.WorkItemType" :> <<"B","u","g">>)
        @@ ("System.Description" :> Get(bug, "description", <<"N","o"," ","d","e","s","c","r","i","p","t","i","o","n">>))
        @@ ("System.Tags" :> Get(bug, "severity", <<"U","n","k","n","o","w","n">>))
        @@ ("Microsoft.VSTS.Common.Priority" :>
               _map_severity_to_priority(Get(bug, "severity", <<"U","n","k","n","o","w","n">>)))
        @@ ("Microsoft.VSTS.Common.Severity" :> Get(bug, "severity", <<"U","n","k","n","o","w","n">>))
        @@ ("Custom.Location" :> Get(bug, "location", <<"U","n","k","n","o","w","n">>))
        @@ ("Custom.LineNumbers" :> Get(bug, "lineNumbers", << >>))
        @@ ("Custom.ExpectedBehavior" :> Get(bug, "expectedBehavior", <<"U","n","k","n","o","w","n">>))
        @@ ("Custom.ActualBehavior" :> Get(bug, "actualBehavior", <<"U","n","k","n","o","w","n">>))
        @@ ("Custom.Steps" :> Get(bug, "steps", << >>))
        @@ ("Custom.Fix" :> Get(bug, "fix", <<"N","o"," ","f","i","x"," ","p","r","o","p","o","s","e","d">>)),
     _links |-> [self |-> [href |-> ApiUrl(organization, project, bug_id)],
                 html |-> [href |-> HtmlUrl(organization, project, bug_id)]],
     url |-> ApiUrl(organization, project, bug_id)]

\* mutant: the fake work item carries the time of the call in its title as well
unknown_work_item_stamped_title(bug_id, organization, project, t) ==
    [id |-> bug_id,
     rev |-> 1,
     fields |->
        ("System.Id" :> bug_id)
        @@ ("System.Title" :> <<"U","n","k","n","o","w","n"," ","b","u","g"," ">> \o bug_id \o <<" ","a","t"," ">> \o Str(t))
        @@ ("System.State" :> <<"N","e","w">>)
        @@ ("System.CreatedDate" :> isoformat(t))
        @@ ("System.CreatedBy" :> Person(<<"S","y","s","t","e","m">>, <<"s","y","s","t","e","m","@","c","o","m","p","a","n","y",".","c","o","m">>))
        @@ ("System.WorkItemType" :> <<"B","u","g">>)
        @@ ("System.Description" :> <<"N","o"," ","b","u","g"," ","f","o","u","n","d"," ","w","i","t","h"," ","I","D"," ">> \o bug_id \o <<".">>)
        @@ ("Microsoft.VSTS.Common.Priority" :> 3),
     _links |-> [self |-> [href |-> ApiUrl(organization, project, bug_id)]]]

\* the fake work item of an id that is neither in BUGS nor in SAMPLE_WORK_ITEMS
unknown_work_item(bug_id, organization, project, t) ==
    [id |-> bug_id,
     rev |-> 1,
     fields |->
        ("System.Id" :> bug_id)
        @@ ("System.Title" :> <<"U","n","k","n","o","w","n"," ","b","u","g"," ">> \o bug_id)
        @@ ("System.State" :> <<"N","e","w">>)
        @@ ("System.CreatedDate" :> isoformat(t))
        @@ ("System.CreatedBy" :> Person(<<"S","y","s","t","e","m">>, <<"s","y","s","t","e","m","@","c","o","m","p","a","n","y",".","c","o","m">>))
        @@ ("System.WorkItemType" :> <<"B","u","g">>)
        @@ ("System.Description" :> <<"N","o"," ","b","u","g"," ","f","o","u","n","d"," ","w","i","t","h"," ","I","D"," ">> \o bug_id \o <<".">>)
        @@ ("Microsoft.VSTS.Common.Priority" :> 3),
     _links |-> [self |-> [href |-> ApiUrl(organization, project, bug_id)]]]

\* mutant: the sample work items are looked up before the loaded bugs
get_work_item_samples_first(bug_id, organization, project, loaded, samples, t) ==
    IF bug_id \in DOMAIN samples
    THEN samples[bug_id]
    ELSE IF bug_id \in DOMAIN loaded
    THEN bug_work_item(bug_id, loaded[bug_id], organization, project, t)
    ELSE unknown_work_item(bug_id, organization, project, t)

\* get_work_item; loaded and samples are the globals BUGS and SAMPLE_WORK_ITEMS,
\* t the clock at the call
get_work_item(bug_id, organization, project, loaded, samples, t) ==
    IF bug_id \in DOMAIN loaded
    THEN bug_work_item(bug_id, loaded[bug_id], organization, project, t)
    ELSE IF bug_id \in DOMAIN samples
    THEN samples[bug_id]
    ELSE unknown_work_item(bug_id, organization, project, t)

SampleLinks(id) ==
    [self |-> [href |-> ApiUrl(<<"o","r","g","a","n","i","z","a","t","i","o","n">>, <<"p","r","o","j","e","c","t">>, id)],
     workItemUpdates |-> [href |-> ApiUrl(<<"o","r","g","a","n","i","z","a","t","i","o","n">>, <<"p","r","o","j","e","c","t">>, id) \o <<"/","u","p","d","a","t","e","s">>],
     html |-> [href |-> HtmlUrl(<<"o","r","g","a","n","i","z","a","t","i","o","n">>, <<"p","r","o","j","e","c","t">>, id)]]

Relation(rel, target, name) ==
    [rel |-> rel, url |-> ApiUrl(<<"o","r","g","a","n","i","z","a","t","i","o","n">>, <<"p","r","o","j","e","c","t">>, target),
     attributes |-> [name |-> name]]

\* the literal SAMPLE_WORK_ITEMS (numbers with a fraction are kept as text)
SampleWorkItems ==
    (<<"1","2","3","4","5">> :>
        [id |-> 12345,
         rev |-> 5,
         fields |->
            ("System.Id" :> 12345)
            @@ ("System.Title" :> <<"F","i","x"," ","p","a","g","i","n","a","t","i","o","n"," ","i","s","s","u","e"," ","o","n"," ","r","e","c","o","r","d"," ","l","i","s","t">>)
            @@ ("System.State" :> <<"A","c","t","i","v","e">>)
            @@ ("System.CreatedDate" :> <<"2","0","2","5","-","0","5","-","1","5","T","0","9",":","3","0",":","4","5",".","1","2","3","Z">>)
            @@ ("System.CreatedBy" :> Person(<<"B","r","a","d"," ","J","o","h","n","s","o","n">>, <<"b","r","a","d",".","j","o","h","n","s","o","n","@","c","o","m","p","a","n","y",".","c","o","m">>))
            @@ ("System.AssignedTo" :> Person(<<"B","r","a","d"," ","J","o","h","n","s","o","n">>, <<"b","r","a","d",".","j","o","h","n","s","o","n","@","c","o","m","p","a","n","y",".","c","o","m">>))
            @@ ("System.WorkItemType" :> <<"U","s","e","r"," ","S","t","o","r","y">>)
            @@ ("System.Description" :> <<"U","s","e","r","s"," ","a","r","e"," ","r","e","p","o","r","t","i","n","g"," ","t","h","a","t"," ","t","h","e"," ","p","a","g","i","n","a","t","i","o","n"," ","c","o","n","t","r","o","l","s"," ","d","o","n","'","t"," ","w","o","r","k"," ","c","o","r","r","e","c","t","l","y"," ","o","n"," ","t","h","e"," ","r","e","c","o","r","d"," ","l","i","s","t"," ","p","a","g","e","."," ","W","h","e","n"," ","c","l","i","c","k","i","n","g"," ","t","o"," ","t","h","e"," ","n","e","x","t"," ","p","a","g","e",","," ","t","h","e"," ","s","a","m","e"," ","r","e","c","o","r","d","s"," ","a","r","e"," ","s","h","o","w","n"," ","a","g","a","i","n",".">>)
            @@ ("System.Tags" :> <<"B","u","g",","," ","F","r","o","n","t","e","n","d",","," ","U","I">>)
            @@ ("Microsoft.VSTS.Common.Priority" :> 2)
            @@ ("Microsoft.VSTS.Common.Severity" :> <<"2"," ","-"," ","M","e","d","i","u","m">>)
            @@ ("Custom.Department" :> <<"E","n","g","i","n","e","e","r","i","n","g">>)
            @@ ("Custom.EstimatedHours" :> <<"4",".","5">>),
         relations |-> <<Relation(<<"S","y","s","t","e","m",".","L","i","n","k","T","y","p","e","s",".","H","i","e","r","a","r","c","h","y","-","F","o","r","w","a","r","d">>, <<"1","2","3","4","6">>, <<"C","h","i","l","d">>)>>,
         _links |-> SampleLinks(<<"1","2","3","4","5">>),
         url |-> ApiUrl(<<"o","r","g","a","n","i","z","a","t","i","o","n">>, <<"p","r","o","j","e","c","t">>, <<"1","2","3","4","5">>)])
    @@
    (<<"5","4","3","2","1">> :>
        [id |-> 54321,
         rev |-> 3,
         fields |->
            ("System.Id" :> 54321)
            @@ ("System.Title" :> <<"I","m","p","l","e","m","e","n","t"," ","u","s","e","r"," ","a","u","t","h","e","n","t","i","c","a","t","i","o","n"," ","w","i","t","h"," ","O","A","u","t","h">>)
            @@ ("System.State" :> <<"N","e","w">>)
            @@ ("System.CreatedDate" :> <<"2","0","2","5","-","0","5","-","1","0","T","1","4",":","2","2",":","3","3",".","4","5","6","Z">>)
            @@ ("System.CreatedBy" :>
                   [displayName |-> <<"J","a","n","e"," ","S","m","i","t","h">>, uniqueName |-> <<"j","a","n","e",".","s","m","i","t","h","@","c","o","m","p","a","n","y",".","c","o","m">>,
                    id |-> <<"z","9","y","8","x","7","w","6","-","v","5","u","4","-","3","2","1","0","-","9","8","7","6","-","5","4","3","2","1","0","f","e","d","c","b","a">>])
            @@ ("System.AssignedTo" :> Person(<<"B","r","a","d"," ","J","o","h","n","s","o","n">>, <<"b","r","a","d",".","j","o","h","n","s","o","n","@","c","o","m","p","a","n","y",".","c","o","m">>))
            @@ ("System.WorkItemType" :> <<"F","e","a","t","u","r","e">>)
            @@ ("System.Description" :> <<"I","m","p","l","e","m","e","n","t"," ","O","A","u","t","h"," ","2",".","0"," ","a","u","t","h","e","n","t","i","c","a","t","i","o","n"," ","f","l","o","w"," ","f","o","r"," ","t","h","e"," ","a","p","p","l","i","c","a","t","i","o","n"," ","t","o"," ","a","l","l","o","w"," ","u","s","e","r","s"," ","t","o"," ","s","i","g","n"," ","i","n"," ","w","i","t","h"," ","t","h","e","i","r"," ","G","o","o","g","l","e",","," ","M","i","c","r","o","s","o","f","t",","," ","o","r"," ","F","a","c","e","b","o","o","k"," ","a","c","c","o","u","n","t","s",".">>)
            @@ ("System.Tags" :> <<"S","e","c","u","r","i","t","y",","," ","A","u","t","h","e","n","t","i","c","a","t","i","o","n",","," ","B","a","c","k","e","n","d">>)
            @@ ("Microsoft.VSTS.Common.Priority" :> 1)
            @@ ("Microsoft.VSTS.Common.Severity" :> <<"1"," ","-"," ","C","r","i","t","i","c","a","l">>)
            @@ ("Custom.Department" :> <<"S","e","c","u","r","i","t","y">>)
            @@ ("Custom.EstimatedHours" :> <<"1","6",".","0">>),
         relations |-> <<Relation(<<"S","y","s","t","e","m",".","L","i","n","k","T","y","p","e","s",".","H","i","e","r","a","r","c","h","y","-","R","e","v","e","r","s","e">>, <<"5","4","3","1","0">>, <<"P","a","r","e","n","t">>)>>,
         _links |-> SampleLinks(<<"5","4","3","2","1">>),
         url |-> ApiUrl(<<"o","r","g","a","n","i","z","a","t","i","o","n">>, <<"p","r","o","j","e","c","t">>, <<"5","4","3","2","1">>)])

\* the ids and URL parts get_work_item is called with
RequestIds == {<<"B","U","G","-","0","0","1">>, <<"1","2","3","4","5">>, <<"N","O","P","E">>}
Organizations == {<<"o","r","g","a","n","i","z","a","t","i","o","n">>, <<"a","c","m","e">>}
Projects == {<<"p","r","o","j","e","c","t">>}

-----------------------------------------------------------------------------
(* github_issues.py and verify_bugs.py                                     *)

\* None, and every other falsy value the scripts only test with "if not x"
None == << >>

\* github_issues.load_bugs_from_json: data.get('bugs', []) is returned as it
\* is, its elements are not looked at
github_load_bugs_from_json(f) ==
    IF f.kind # "json" THEN Failed(List(<< >>))                  \* open / json.load
    ELSE IF f.data.t # "map" THEN Failed(List(<< >>))            \* data.get
    ELSE Loaded(Get(f.data.m, "bugs", List(<< >>)))

\* verify_bugs.load_bugs_from_json: the same code
verify_load_bugs_from_json(f) ==
    IF f.kind # "json" THEN Failed(List(<< >>))                  \* open / json.load
    ELSE IF f.data.t # "map" THEN Failed(List(<< >>))            \* data.get
    ELSE Loaded(Get(f.data.m, "bugs", List(<< >>)))

\* "if not bugs" on what a loader returned: None and the empty list are falsy
NoBugs(v) == v.t = "null" \/ (v.t = "list" /\ Len(v.items) = 0)

\* the numbered lines of the steps: f"{i}. {step}\n" for enumerate(steps, 1)
RECURSIVE StepLines(_, _)
StepLines(steps, i) ==
    IF i > Len(steps) THEN << >>
    ELSE Str(i) \o <<"."," ">> \o steps[i] \o <<"\n">> \o StepLines(steps, i + 1)

\* the labels of an issue: severity and status, the empty ones removed
convert_labels(bug) ==
    SelectSeq(<<Get(bug, "severity", << >>), Get(bug, "status", << >>)>>, Truthy)

\* the location line of the body
convert_location(bug) ==
    Get(bug, "location", <<"U","n","k","n","o","w","n">>)
        \o (IF "lineNumbers" \in DOMAIN bug /\ Truthy(bug.lineNumbers)
            THEN <<" ","(","L","i","n","e","s",":"," ">> \o Join(<<","," ">>, MapStr(bug.lineNumbers)) \o <<")">>
            ELSE << >>)

\* mutant: the test "and bug['steps']" is missing, an empty steps list prints the header
convert_steps_header_always(bug) ==
    IF "steps" \in DOMAIN bug
    THEN <<"\n","#","#","#"," ","S","t","e","p","s"," ","t","o"," ","R","e","p","r","o","d","u","c","e","\n">> \o StepLines(bug.steps, 1)
    ELSE << >>

\* the steps section of the body
convert_steps(bug) ==
    IF "steps" \in DOMAIN bug /\ Truthy(bug.steps)
    THEN <<"\n","#","#","#"," ","S","t","e","p","s"," ","t","o"," ","R","e","p","r","o","d","u","c","e","\n">> \o StepLines(bug.steps, 1)
    ELSE << >>

\* mutant: an absent id is not replaced by BUG
convert_title_no_default_id(bug) ==
    Get(bug, "id", << >>) \o <<":"," ">> \o Get(bug, "title", <<"U","n","t","i","t","l","e","d"," ","B","u","g">>)

\* the title of an issue
convert_title(bug) == Get(bug, "id", <<"B","U","G">>) \o <<":"," ">> \o Get(bug, "title", <<"U","n","t","i","t","l","e","d"," ","B","u","g">>)

convert_bug_to_github_issue(bug) ==
    [title |-> convert_title(bug),
     body |->
        <<"#","#"," ","B","u","g"," ","D","e","s","c","r","i","p","t","i","o","n","\n">> \o Get(bug, "description", <<"N","o"," ","d","e","s","c","r","i","p","t","i","o","n"," ","p","r","o","v","i","d","e","d">>)
        \o <<"\n","\n","#","#","#"," ","L","o","c","a","t","i","o","n","\n">> \o convert_location(bug)
        \o <<"\n","\n">> \o convert_steps(bug)
        \o <<"\n","#","#","#"," ","E","x","p","e","c","t","e","d"," ","B","e","h","a","v","i","o","r","\n">> \o Get(bug, "expectedBehavior", <<"N","o","t"," ","s","p","e","c","i","f","i","e","d">>)
        \o <<"\n","\n","#","#","#"," ","A","c","t","u","a","l"," ","B","e","h","a","v","i","o","r","\n">> \o Get(bug, "actualBehavior", <<"N","o","t"," ","s","p","e","c","i","f","i","e","d">>)
        \o <<"\n","\n","#","#","#"," ","P","r","o","p","o","s","e","d"," ","F","i","x","\n">> \o Get(bug, "fix", <<"N","o"," ","f","i","x"," ","p","r","o","p","o","s","e","d">>)
        \o <<"\n","\n","#","#","#"," ","A","s","s","i","g","n","e","d"," ","T","o","\n">> \o Get(bug, "assignedTo", <<"U","n","a","s","s","i","g","n","e","d">>)
        \o <<"\n">>,
     labels |-> convert_labels(bug)]

Headers(token) ==
    [Authorization |-> <<"t","o","k","e","n"," ">> \o token, Accept |-> <<"a","p","p","l","i","c","a","t","i","o","n","/","v","n","d",".","g","i","t","h","u","b",".","v","3","+","j","s","o","n">>]

\* a request handed to requests.get / requests.post
Request(method, url, json, token) ==
    [method |-> method, url |-> url, json |-> json, headers |-> Headers(token)]

IssuesUrl(repo) == <<"h","t","t","p","s",":","/","/","a","p","i",".","g","i","t","h","u","b",".","c","o","m","/","r","e","p","o","s","/">> \o repo \o <<"/","i","s","s","u","e","s">>
LabelsUrl(repo) == <<"h","t","t","p","s",":","/","/","a","p","i",".","g","i","t","h","u","b",".","c","o","m","/","r","e","p","o","s","/">> \o repo \o <<"/","l","a","b","e","l","s">>

\* mutant: only the severities become labels
bug_labels_severity_only(items) ==
    {items[i].m.severity : i \in {j \in 1..Len(items) :
         "severity" \in DOMAIN items[j].m /\ Truthy(items[j].m.severity)}}

\* the label set create_github_labels extracts from the bugs
bug_labels(items) ==
    {items[i].m.severity : i \in {j \in 1..Len(items) :
         "severity" \in DOMAIN items[j].m /\ Truthy(items[j].m.severity)}}
    \cup {items[i].m.status : i \in {j \in 1..Len(items) :
         "status" \in DOMAIN items[j].m /\ Truthy(items[j].m.status)}}

label_colors ==
    (<<"C","r","i","t","i","c","a","l">> :> <<"f","f","0","0","0","0">>) @@ (<<"H","i","g","h">> :> <<"d","9","3","f","0","b">>) @@ (<<"M","e","d","i","u","m">> :> <<"f","b","c","a","0","4">>)
    @@ (<<"L","o","w">> :> <<"0","e","8","a","1","6">>) @@ (<<"O","p","e","n">> :> <<"c","2","e","0","c","6">>) @@ (<<"I","n"," ","P","r","o","g","r","e","s","s">> :> <<"0","0","5","2","c","c">>)
    @@ (<<"R","e","s","o","l","v","e","d">> :> <<"5","3","1","9","e","7">>) @@ (<<"C","l","o","s","e","d">> :> <<"b","f","d","a","d","c">>)

\* the JSON body of a label creation
label_data(label) ==
    [name |-> label, color |-> Get(label_colors, label, <<"c","c","c","c","c","c">>),
     description |-> <<"B","u","g"," ">> \o Lower(label) \o <<" ","l","e","v","e","l">>]

\* the environment: GITHUB_TOKEN, and the path parts urlparse gives for GITHUB_REPO
Environments ==
    {[GITHUB_TOKEN |-> None, GITHUB_REPO |-> None],
     [GITHUB_TOKEN |-> <<"t","o","k">>, GITHUB_REPO |-> None],
     [GITHUB_TOKEN |-> <<"t","o","k">>, GITHUB_REPO |-> <<<<"o","w","n","e","r">>>>],
     [GITHUB_TOKEN |-> <<"t","o","k">>, GITHUB_REPO |-> <<<<"o","w","n","e","r">>, <<"r","e","p","o",".","g","i","t">>>>]}

\* repo[:-4] if repo.endswith('.git')
StripGit(repo) ==
    IF Len(repo) >= 4 /\ SubSeq(repo, Len(repo) - 3, Len(repo)) = <<".","g","i","t">>
    THEN SubSeq(repo, 1, Len(repo) - 4)
    ELSE repo

\* load_env_variables: (token, "owner/repo"), or (None, None) with an error line
load_env_variables(env) ==
    IF ~Truthy(env.GITHUB_TOKEN)
    THEN [token |-> None, repo |-> None, error |-> "Error: GITHUB_TOKEN not found in .env file"]
    ELSE IF ~Truthy(env.GITHUB_REPO)
    THEN [token |-> None, repo |-> None, error |-> "Error: GITHUB_REPO not found in .env file"]
    ELSE IF Len(env.GITHUB_REPO) < 2
    THEN [token |-> None, repo |-> None,
          error |-> "Error: Invalid GitHub repository URL format"]
    ELSE [token |-> env.GITHUB_TOKEN,
          repo |-> env.GITHUB_REPO[1] \o <<"/">> \o StripGit(env.GITHUB_REPO[2]),
          error |-> ""]

\* the command lines github_issues.main is run with
CommandLines ==
    [token : {None, <<"t","o","k">>}, repo : {None, <<"o","w","n","e","r","/","r","e","p","o">>}, dry_run : BOOLEAN,
     ids : {None, <<<<"B","U","G","-","0","0","1">>>>, <<<<"B","U","G","-","0","0","2">>, <<"B","U","G","-","0","0","1">>>>, <<<<"N","O","P","E">>>>}]

\* the label names an answered GET /labels lists
ExistingLabelSets == {{}, {<<"O","p","e","n">>}}

-----------------------------------------------------------------------------
(* The state machine.                                                      *)

Scripts == {"devops", "caller", "convert", "github", "verify"}

\* the programs that import devops and call get_work_item: devops.py itself, and
\* a caller that also modifies the work items it was returned
DevopsClients == {"devops", "caller"}

\* the files the caller runs on: no record or one record
CallerFiles == {BugsFile(s) : s \in SeqsUpTo({Obj(r) : r \in SmallRecords}, 1)}

NoFile == [kind |-> "missing"]

Init ==
    /\ script \in Scripts
    /\ \/ script = "devops" /\ file \in Files /\ args = EmptyDict
       \/ script = "caller" /\ file \in CallerFiles /\ args = EmptyDict
       \/ script = "convert" /\ file = NoFile /\ args \in {[bug |-> r] : r \in Records}
       \/ script \in {"github", "verify"} /\ file \in SmallFiles /\ args = EmptyDict
    /\ pc = "start"
    /\ BUGS = EmptyDict
    /\ SAMPLE_WORK_ITEMS = SampleWorkItems
    /\ now = 0
    /\ calls = << >>
    /\ bugs = List(<< >>)
    /\ idx = 0
    /\ labels = {}
    /\ existing_labels = {}
    /\ response = None
    /\ http = << >>
    /\ out = << >>

Say(msg, data) == [msg |-> msg, data |-> data]

\* the last two calls, the newest last
Remember(call) == IF Len(calls) < 2 THEN Append(calls, call) ELSE <<calls[2], call>>

\* devops.py is imported: BUGS = load_bugs_from_json()
DevopsImport ==
    /\ script \in DevopsClients /\ pc = "start"
    /\ LET r == devops_load_bugs_from_json(file)
       IN /\ BUGS' = r.value
          /\ out' = IF r.error THEN Append(out, Say("Error loading bugs.json", << >>)) ELSE out
    /\ pc' = "ready"
    /\ UNCHANGED <<response, script, file, SAMPLE_WORK_ITEMS, now, calls, args, bugs, idx, labels,
                   existing_labels, http>>

\* a call get_work_item(bug_id, organization, project)
GetWorkItem ==
    /\ script \in DevopsClients /\ pc = "ready"
    /\ now < MaxClock
    /\ \E bug_id \in RequestIds, organization \in Organizations, project \in Projects :
          calls' = Remember([bug_id |-> bug_id, organization |-> organization,
                             project |-> project,
                             result |-> get_work_item(bug_id, organization, project,
                                                      BUGS, SAMPLE_WORK_ITEMS, now + 1)])
    /\ now' = now + 1
    /\ UNCHANGED <<response, script, file, pc, BUGS, SAMPLE_WORK_ITEMS, args, bugs, idx, labels,
                   existing_labels, http, out>>

\* the result of the call is the object SAMPLE_WORK_ITEMS[bug_id] itself
ReturnsSample(c) == c.bug_id \notin DOMAIN BUGS /\ c.bug_id \in DOMAIN SAMPLE_WORK_ITEMS

\* the Custom.Steps of the result is the list object BUGS[bug_id]["steps"]:
\* bug.get("steps", []) returns the stored list when the key is present
SharesSteps(c) == c.bug_id \in DOMAIN BUGS /\ "steps" \in DOMAIN BUGS[c.bug_id]

\* the caller modifies in place the work item it was returned last:
\* item["fields"]["System.Title"] = "changed", or item["fields"]["Custom.Steps"].clear().
\* What is one object in Python changes in every place that holds it.
CallerModify ==
    /\ script = "caller" /\ pc = "ready"
    /\ Len(calls) > 0
    /\ LET n == Len(calls)
           c == calls[n]
       IN \/ LET changed == [c.result EXCEPT !.fields["System.Title"] = <<"c","h","a","n","g","e","d">>]
             IN IF ReturnsSample(c)
                THEN /\ SAMPLE_WORK_ITEMS' = [SAMPLE_WORK_ITEMS EXCEPT ![c.bug_id] = changed]
                     /\ calls' = [i \in 1..n |->
                                    IF calls[i].bug_id = c.bug_id
                                    THEN [calls[i] EXCEPT !.result = changed]
                                    ELSE calls[i]]
                     /\ UNCHANGED BUGS
                ELSE /\ calls' = [calls EXCEPT ![n].result = changed]
                     /\ UNCHANGED <<BUGS, SAMPLE_WORK_ITEMS>>
          \/ /\ "Custom.Steps" \in DOMAIN c.result.fields
             /\ IF SharesSteps(c)
                THEN /\ BUGS' = [BUGS EXCEPT ![c.bug_id].steps = << >>]
                     /\ calls' = [i \in 1..n |->
                                    IF calls[i].bug_id = c.bug_id
                                    THEN [calls[i] EXCEPT !.result.fields["Custom.Steps"] = << >>]
                                    ELSE calls[i]]
                ELSE /\ calls' = [calls EXCEPT ![n].result.fields["Custom.Steps"] = << >>]
                     /\ UNCHANGED BUGS
             /\ UNCHANGED SAMPLE_WORK_ITEMS
    /\ UNCHANGED <<response, script, file, pc, now, args, bugs, idx, labels, existing_labels, http, out>>

\* a call convert_bug_to_github_issue(bug) on the record args.bug
ConvertCall ==
    /\ script = "convert" /\ pc = "start"
    /\ now < MaxClock
    /\ calls' = Remember([bug |-> args.bug, result |-> convert_bug_to_github_issue(args.bug)])
    /\ now' = now + 1
    /\ UNCHANGED <<response, script, file, pc, BUGS, SAMPLE_WORK_ITEMS, args, bugs, idx, labels,
                   existing_labels, http, out>>

\* verify_bugs.main, the whole run: bug.get raises on an element that is no mapping
VerifyMain ==
    /\ script = "verify" /\ pc = "start"
    /\ LET r == verify_load_bugs_from_json(file)
           out1 == IF r.error THEN Append(out, Say("Error loading bugs.json", << >>)) ELSE out
       IN /\ bugs' = r.value
          /\ IF NoBugs(r.value)
             THEN /\ out' = Append(out1, Say("No bugs found in bugs.json", << >>))
                  /\ pc' = "done"
             ELSE LET items == r.value.items
                      bad == {i \in 1..Len(items) : items[i].t # "map"}
                      stop == IF bad = {} THEN Len(items) + 1
                              ELSE CHOOSE i \in bad : \A j \in bad : i <= j
                      line(i) == Say("- ", [id |-> Get(items[i].m, "id", <<"N","o","n","e">>),
                                            title |-> Get(items[i].m, "title", <<"N","o","n","e">>),
                                            severity |-> Get(items[i].m, "severity", <<"N","o","n","e">>)])
                  IN /\ out' = Append(out1, Say("Successfully loaded bugs", Len(items)))
                                  \o [i \in 1..(stop - 1) |-> line(i)]
                     /\ pc' = IF bad = {} THEN "done" ELSE "crashed"
    /\ UNCHANGED <<response, script, file, BUGS, SAMPLE_WORK_ITEMS, now, calls, args, idx, labels,
                   existing_labels, http>>

\* github_issues.main up to the validation of token and repository
GhParse ==
    /\ script = "github" /\ pc = "start"
    /\ \E cl \in CommandLines, env \in Environments :
          LET need == ~Truthy(cl.token) \/ ~Truthy(cl.repo)
              e == load_env_variables(env)
              token == IF ~Truthy(cl.token) THEN e.token ELSE cl.token
              repo == IF ~Truthy(cl.repo) THEN e.repo ELSE cl.repo
              out1 == IF need /\ e.error # "" THEN Append(out, Say(e.error, << >>)) ELSE out
          IN /\ args' = [token |-> token, repo |-> repo, dry_run |-> cl.dry_run,
                         ids |-> cl.ids]
             /\ IF ~Truthy(token)
                THEN /\ out' = Append(out1, Say("Error: GitHub token not provided", << >>))
                     /\ pc' = "done"
                ELSE IF ~Truthy(repo)
                THEN /\ out' = Append(out1, Say("Error: GitHub repository not provided", << >>))
                     /\ pc' = "done"
                ELSE /\ out' = out1
                     /\ pc' = "load"
    /\ UNCHANGED <<response, script, file, BUGS, SAMPLE_WORK_ITEMS, now, calls, bugs, idx, labels,
                   existing_labels, http>>

\* github_issues.main: bugs = load_bugs_from_json() and the test for no bugs
GhLoad ==
    /\ script = "github" /\ pc = "load"
    /\ LET r == github_load_bugs_from_json(file)
           out1 == IF r.error THEN Append(out, Say("Error loading bugs.json", << >>)) ELSE out
       IN /\ bugs' = r.value
          /\ IF NoBugs(r.value)
             THEN /\ out' = Append(out1, Say("No bugs found in bugs.json", << >>))
                  /\ pc' = "done"
             ELSE /\ out' = out1
                  /\ pc' = "filter"
    /\ UNCHANGED <<response, script, file, BUGS, SAMPLE_WORK_ITEMS, now, calls, args, idx, labels,
                   existing_labels, http>>

InSeq(x, s) == \E i \in 1..Len(s) : s[i] = x

\* mutant: the bugs are picked id by id, in the order of the ids on the command line
RECURSIVE filter_ids_in_ids_order(_, _)
filter_ids_in_ids_order(items, ids) ==
    IF Len(ids) = 0 THEN << >>
    ELSE LET first(b) == Get(b.m, "id", None) = ids[1]
         IN SelectSeq(items, first) \o filter_ids_in_ids_order(items, Tail(ids))

\* the bugs the --ids filter keeps: those whose id is among ids, in file order
filter_ids(items, ids) ==
    LET keep(b) == InSeq(Get(b.m, "id", None), ids)
    IN SelectSeq(items, keep)

\* mutant: the labels are created in a dry run too
AfterFilter_labels_always == "labels"

\* where main goes once the bugs are selected
AfterFilter == IF args.dry_run THEN "convert" ELSE "labels"

\* github_issues.main: the --ids filter; bug.get raises on an element that is no mapping
GhFilter ==
    /\ script = "github" /\ pc = "filter"
    /\ IF ~Truthy(args.ids)
       THEN /\ pc' = AfterFilter
            /\ UNCHANGED <<bugs, out>>
       ELSE IF \E i \in 1..Len(bugs.items) : bugs.items[i].t # "map"
       THEN /\ pc' = "crashed"
            /\ UNCHANGED <<bugs, out>>
       ELSE LET kept == filter_ids(bugs.items, args.ids)
            IN /\ bugs' = List(kept)
               /\ IF Len(kept) = 0
                  THEN /\ out' = Append(out, Say("No bugs found with the specified IDs",
                                                 args.ids))
                       /\ pc' = "done"
                  ELSE /\ out' = out
                       /\ pc' = AfterFilter
    /\ UNCHANGED <<response, script, file, BUGS, SAMPLE_WORK_ITEMS, now, calls, args, idx, labels,
                   existing_labels, http>>

\* what GET /labels answers: 200 with the existing labels, or another status
GetResponses ==
    {[status_code |-> 200, names |-> S] : S \in ExistingLabelSets}
    \cup {[status_code |-> 403, names |-> {}]}

\* what a POST answers
PostStatusCodes == {201, 422}

\* create_github_labels up to the for loop: the label set and the GET
GhLabels ==
    /\ script = "github" /\ pc = "labels"
    /\ out' = Append(out, Say("Creating labels in", args.repo))
    /\ IF \E i \in 1..Len(bugs.items) : bugs.items[i].t # "map"
       THEN \* 'severity' in bug raises before any request is sent
            /\ pc' = "crashed"
            /\ UNCHANGED <<labels, existing_labels, response, http>>
       ELSE /\ labels' = bug_labels(bugs.items)
            /\ http' = Append(http, Request("GET", LabelsUrl(args.repo), None, args.token))
            /\ \/ \E answer \in GetResponses :
                     /\ response' = answer
                     /\ existing_labels' = IF answer.status_code = 200
                                           THEN answer.names ELSE {}
                     /\ pc' = "labelloop"
               \/ \* requests.get raises
                  /\ pc' = "crashed"
                  /\ UNCHANGED <<existing_labels, response>>
    /\ UNCHANGED <<script, file, BUGS, SAMPLE_WORK_ITEMS, now, calls, args, bugs, idx>>

\* one iteration of the for loop of create_github_labels, over a set in no fixed order
GhLabelNext ==
    /\ script = "github" /\ pc = "labelloop"
    /\ \E label \in labels :
          /\ labels' = labels \ {label}
          /\ IF label \in existing_labels
             THEN UNCHANGED <<http, out, pc>>
             ELSE /\ http' = Append(http, Request("POST", LabelsUrl(args.repo),
                                                  label_data(label), args.token))
                  /\ \/ \E status_code \in PostStatusCodes :
                           /\ out' = IF status_code = 201
                                     THEN Append(out, Say("Created label: ", label))
                                     ELSE out \o <<Say("Error creating label", label),
                                                   Say("response.text", status_code)>>
                           /\ UNCHANGED pc
                     \/ \* requests.post raises
                        /\ pc' = "crashed"
                        /\ UNCHANGED out
    /\ UNCHANGED <<response, script, file, BUGS, SAMPLE_WORK_ITEMS, now, calls, args, bugs, idx,
                   existing_labels>>

\* github_issues.main: the line printed before the for loop over the bugs
GhConvertStart ==
    /\ script = "github"
    /\ \/ pc = "convert"
       \/ pc = "labelloop" /\ labels = {}
    /\ out' = Append(out, Say("Converting bugs to GitHub issues...", Len(bugs.items)))
    /\ pc' = "loop"
    /\ idx' = 0
    /\ UNCHANGED <<response, script, file, BUGS, SAMPLE_WORK_ITEMS, now, calls, args, bugs, labels,
                   existing_labels, http>>

\* one iteration of the for loop of main: convert the bug, then print it or POST it
GhIssue ==
    /\ script = "github" /\ pc = "loop"
    /\ idx < Len(bugs.items)
    /\ LET bug == bugs.items[idx + 1]
       IN IF bug.t # "map"
          THEN \* bug.get raises in convert_bug_to_github_issue
               /\ pc' = "crashed"
               /\ UNCHANGED <<idx, http, out>>
          ELSE LET issue_data == convert_bug_to_github_issue(bug.m)
               IN IF args.dry_run
                  THEN /\ out' = out \o <<Say("Would create issue: ", issue_data.title),
                                          Say("Labels: ", Join(<<","," ">>, issue_data.labels)),
                                          Say("Body:", issue_data.body)>>
                       /\ idx' = idx + 1
                       /\ UNCHANGED <<pc, http>>
                  ELSE LET out1 == Append(out, Say("Creating issue for",
                                               [id |-> Get(bug.m, "id", <<"N","o","n","e">>),
                                                title |-> Get(bug.m, "title", <<"N","o","n","e">>)]))
                       IN /\ http' = Append(http, Request("POST", IssuesUrl(args.repo),
                                                          issue_data, args.token))
                          /\ \/ \E status_code \in PostStatusCodes :
                                   /\ out' = IF status_code = 201
                                             THEN Append(out1, Say("  Created: ", issue_data.title))
                                             ELSE out1 \o <<Say("Error creating issue", status_code),
                                                            Say("response.text", status_code)>>
                                   /\ idx' = idx + 1
                                   /\ UNCHANGED pc
                             \/ \* requests.post raises
                                /\ pc' = "crashed"
                                /\ out' = out1
                                /\ UNCHANGED idx
    /\ UNCHANGED <<response, script, file, BUGS, SAMPLE_WORK_ITEMS, now, calls, args, bugs, labels,
                   existing_labels>>

\* github_issues.main: the report after the loop
GhFinish ==
    /\ script = "github" /\ pc = "loop"
    /\ idx = Len(bugs.items)
    /\ out' = Append(out, IF args.dry_run
                          THEN Say("DRY RUN - No issues were actually created", << >>)
                          ELSE Say("All bugs have been converted to GitHub issues.", << >>))
    /\ pc' = "done"
    /\ UNCHANGED <<response, script, file, BUGS, SAMPLE_WORK_ITEMS, now, calls, args, bugs, idx, labels,
                   existing_labels, http>>

-----------------------------------------------------------------------------
(* The claims.                                                             *)

\* the calls made so far in a run of the given script
CallsOf(s) == IF script = s THEN {calls[i] : i \in 1..Len(calls)} ELSE {}

\* the get_work_item calls whose id is in BUGS: the calls that map a BugRecord
MappedCalls == {c \in CallsOf("devops") : c.bug_id \in DOMAIN BUGS}

Priority(c) == c.result.fields["Microsoft.VSTS.Common.Priority"]

\* the priority the severity table gives
TablePriority(s) ==
    IF s = <<"C","r","i","t","i","c","a","l">> THEN 1 ELSE IF s = <<"H","i","g","h">> THEN 2 ELSE IF s = <<"L","o","w">> THEN 4 ELSE 3

\* C1: the priority of a mapped work item is 1 for severity Critical, 2 for High,
\* 3 for Medium, 4 for Low and 3 for every other severity, the empty and the
\* absent one included; _map_severity_to_priority gives the same on every string.
C1_PriorityFromSeverity ==
    /\ \A s \in Severities : _map_severity_to_priority(s) = TablePriority(s)
    /\ \A c \in MappedCalls :
          LET bug == BUGS[c.bug_id]
          IN Priority(c) = IF "severity" \in DOMAIN bug THEN TablePriority(bug.severity) ELSE 3

C1_Witness ==
    \E c \in MappedCalls :
        /\ "severity" \in DOMAIN BUGS[c.bug_id]
        /\ BUGS[c.bug_id].severity = <<"L","o","w">>
        /\ Priority(c) = 4

\* the keys every mapped work item's fields must hold
WorkItemFieldKeys ==
    {"System.Title", "System.State", "System.AssignedTo", "System.Description",
     "Microsoft.VSTS.Common.Priority", "Microsoft.VSTS.Common.Severity", "Custom.Location",
     "Custom.LineNumbers", "Custom.ExpectedBehavior", "Custom.ActualBehavior",
     "Custom.Steps", "Custom.Fix"}

\* record key, work-item field, default of the field
FieldDefaults ==
    {<<"title", "System.Title", <<"N","o"," ","T","i","t","l","e">>>>,
     <<"status", "System.State", <<"U","n","k","n","o","w","n">>>>,
     <<"description", "System.Description", <<"N","o"," ","d","e","s","c","r","i","p","t","i","o","n">>>>,
     <<"severity", "Microsoft.VSTS.Common.Severity", <<"U","n","k","n","o","w","n">>>>,
     <<"location", "Custom.Location", <<"U","n","k","n","o","w","n">>>>,
     <<"lineNumbers", "Custom.LineNumbers", << >> >>,
     <<"expectedBehavior", "Custom.ExpectedBehavior", <<"U","n","k","n","o","w","n">>>>,
     <<"actualBehavior", "Custom.ActualBehavior", <<"U","n","k","n","o","w","n">>>>,
     <<"steps", "Custom.Steps", << >> >>,
     <<"fix", "Custom.Fix", <<"N","o"," ","f","i","x"," ","p","r","o","p","o","s","e","d">>>>}

HasAllFields(c) ==
    /\ WorkItemFieldKeys \subseteq DOMAIN c.result.fields
    /\ {"displayName", "uniqueName"} \subseteq DOMAIN c.result.fields["System.AssignedTo"]

\* C2 as claimed: for every requested bug id the returned work item holds every
\* key of the fixed work-item set.
C2_Original == \A c \in CallsOf("devops") : HasAllFields(c)

\* C2 as amended: for every requested id that is in BUGS, whatever optional keys
\* its record lacks, the work item holds every key of the fixed set, each present
\* input copied and each absent one replaced by its default.
C2_MappingTotalOnLoadedBugs ==
    \A c \in MappedCalls :
        LET bug == BUGS[c.bug_id]
            fields == c.result.fields
        IN /\ HasAllFields(c)
           /\ \A d \in FieldDefaults :
                 fields[d[2]] = IF d[1] \in DOMAIN bug THEN bug[d[1]] ELSE d[3]
           /\ fields["System.AssignedTo"].displayName =
                 IF "assignedTo" \in DOMAIN bug THEN bug.assignedTo ELSE <<"U","n","a","s","s","i","g","n","e","d">>

C2_Witness ==
    \E c \in MappedCalls :
        /\ DOMAIN BUGS[c.bug_id] = {"id", "steps", "fix"}
        /\ c.result.fields["System.Title"] = <<"N","o"," ","T","i","t","l","e">>
        /\ c.result.fields["Custom.Fix"] = <<"A","d","d"," ","c","h","e","c","k">>

\* the file whose bugs sequence holds the empty record {} alone
EmptyRecordFile == BugsFile(<<Obj(EmptyDict)>>)

State(c) == c.result.fields["System.State"]

Range(s) == {s[i] : i \in 1..Len(s)}

\* the non-empty values among a record's severity and status
LabelValues(bug) ==
    {v \in {Get(bug, "severity", << >>), Get(bug, "status", << >>)} : v # << >>}

\* C4: the labels of an issue are exactly the non-empty values among severity
\* and status, and none of them occurs twice.
C4_LabelsAreASet ==
    \A c \in CallsOf("convert") :
        /\ Range(c.result.labels) = LabelValues(c.bug)
        /\ Len(c.result.labels) = Cardinality(LabelValues(c.bug))

\* C5: the issue of any record, the empty one included, has exactly the keys
\* title, body and labels, and its title is the id (or BUG), ": ", and the title
\* (or Untitled Bug).
C5_IssueTotalWithTitle ==
    \A c \in CallsOf("convert") :
        /\ DOMAIN c.result = {"title", "body", "labels"}
        /\ c.result.title =
              (IF "id" \in DOMAIN c.bug THEN c.bug.id ELSE <<"B","U","G">>) \o <<":"," ">>
                  \o (IF "title" \in DOMAIN c.bug THEN c.bug.title ELSE <<"U","n","t","i","t","l","e","d"," ","B","u","g">>)

C5_Witness ==
    /\ \E c \in CallsOf("convert") : c.bug = EmptyDict /\ c.result.title = <<"B","U","G",":"," ","U","n","t","i","t","l","e","d"," ","B","u","g">>
    /\ \E c \in CallsOf("convert") : c.bug = EmptyDict /\ Len(c.result.body) > 0

IsDigit(ch) == ch \in {"0", "1", "2", "3", "4", "5", "6", "7", "8", "9"}

\* a line "<digits>. <text>"
IsNumberedLine(line) ==
    \E k \in 1..Len(line) :
        /\ \A j \in 1..k : IsDigit(line[j])
        /\ Len(line) >= k + 2 /\ line[k + 1] = "." /\ line[k + 2] = " "

StepsHeader == <<"#","#","#"," ","S","t","e","p","s"," ","t","o"," ","R","e","p","r","o","d","u","c","e">>

StepsOf(bug) == Get(bug, "steps", << >>)

\* C6: with N >= 1 steps the body holds the Steps to Reproduce header once,
\* followed by the N lines "i. <step i>" in input order, and no other numbered
\* line; with no steps it holds neither the header nor a numbered line; with no
\* lineNumbers the location line carries no "(Lines: ...)" suffix.
C6_NumberedSteps ==
    \A c \in CallsOf("convert") :
        LET body == Lines(c.result.body)
            steps == StepsOf(c.bug)
            N == Len(steps)
            headers == {h \in 1..Len(body) : body[h] = StepsHeader}
            numbered == {h \in 1..Len(body) : IsNumberedLine(body[h])}
            loc == CHOOSE h \in 1..Len(body) : body[h] = <<"#","#","#"," ","L","o","c","a","t","i","o","n">>
        IN /\ N >= 1 =>
                \E h \in 1..Len(body) :
                    /\ headers = {h}
                    /\ numbered = (h + 1)..(h + N)
                    /\ \A i \in 1..N : body[h + i] = Str(i) \o <<"."," ">> \o steps[i]
           /\ N = 0 => headers = {} /\ numbered = {}
           /\ Len(Get(c.bug, "lineNumbers", << >>)) = 0 =>
                 body[loc + 1] = Get(c.bug, "location", <<"U","n","k","n","o","w","n">>)
           /\ Len(Get(c.bug, "lineNumbers", << >>)) > 0 =>
                 body[loc + 1] = Get(c.bug, "location", <<"U","n","k","n","o","w","n">>) \o <<" ","(","L","i","n","e","s",":"," ">>
                     \o Join(<<","," ">>, MapStr(c.bug.lineNumbers)) \o <<")">>

C6_Witness ==
    /\ \E c \in CallsOf("convert") :
          /\ Len(StepsOf(c.bug)) = MaxSteps
          /\ StepsOf(c.bug)[1] # StepsOf(c.bug)[2]
          /\ \E h \in 1..Len(Lines(c.result.body)) :
                Lines(c.result.body)[h] = <<"2","."," ">> \o StepsOf(c.bug)[2]

\* C7: the uniqueName of the assignee of a mapped work item is its displayName
\* lowercased, every space replaced by a dot, followed by @company.com.
C7_UniqueNameFromDisplayName ==
    \A c \in MappedCalls :
        LET assigned == c.result.fields["System.AssignedTo"]
        IN assigned.uniqueName =
              Replace(Lower(assigned.displayName), " ", ".") \o <<"@","c","o","m","p","a","n","y",".","c","o","m">>

C7_Witness ==
    \E c \in MappedCalls :
        /\ c.result.fields["System.AssignedTo"].displayName = <<"A","L"," "," ","B"," ","c">>
        /\ c.result.fields["System.AssignedTo"].uniqueName = <<"a","l",".",".","b",".","c","@","c","o","m","p","a","n","y",".","c","o","m">>

\* a work item without its System.CreatedDate
WithoutCreatedDate(item) ==
    [item EXCEPT !.fields = Restrict(item.fields, DOMAIN item.fields \ {"System.CreatedDate"})]

SameRequest(a, b) ==
    a.bug_id = b.bug_id /\ a.organization = b.organization /\ a.project = b.project

Unloadable(f) ==
    \/ f.kind # "json"
    \/ f.data.t # "map"
    \/ /\ "bugs" \in DOMAIN f.data.m /\ f.data.m.bugs.t = "list"
       /\ \E i \in 1..Len(f.data.m.bugs.items) : f.data.m.bugs.items[i].t # "map"

NoBugsKey(f) == f.kind = "json" /\ f.data.t = "map" /\ "bugs" \notin DOMAIN f.data.m

ErrorReported == \E i \in 1..Len(out) : out[i].msg = "Error loading bugs.json"

LastLine == IF Len(out) = 0 THEN "" ELSE out[Len(out)].msg

\* the variable bugs holds what load_bugs_from_json returned
JustLoaded ==
    \/ script = "verify" /\ pc # "start"
    \/ script = "github" /\ pc = "filter"
    \/ script = "github" /\ pc = "done" /\ LastLine = "No bugs found in bugs.json"

\* C9: on a missing, invalid or wrongly shaped bugs.json every loader reports
\* the error and returns an empty collection; on a mapping without a bugs key
\* it returns an empty collection.
C9_LoadIsNonFatal ==
    /\ script = "devops" /\ pc = "ready" =>
          /\ Unloadable(file) => BUGS = EmptyDict /\ ErrorReported
          /\ NoBugsKey(file) => BUGS = EmptyDict
    /\ JustLoaded =>
          /\ Unloadable(file) => bugs = List(<< >>) /\ ErrorReported
          /\ NoBugsKey(file) => bugs = List(<< >>)

DryRun == script = "github" /\ pc # "start" /\ args.dry_run

DryRunReport == "DRY RUN - No issues were actually created"

\* C10 as claimed: a dry run sends no request and ends by reporting that no
\* issues were actually created.
C10_Original ==
    DryRun => /\ http = << >>
              /\ pc = "done" => LastLine = DryRunReport

\* C10 as amended: a dry run sends no request and never reports that all bugs
\* were converted; when it returns, its last line is the dry-run report if it
\* selected at least one bug, and otherwise the line of the early return (no
\* token, no repository, no bugs, no bug with the given ids).
C10_DryRunSendsNothing ==
    DryRun =>
        /\ http = << >>
        /\ \A i \in 1..Len(out) : out[i].msg # "All bugs have been converted to GitHub issues."
        /\ pc = "done" =>
              IF NoBugs(bugs)
              THEN LastLine \in {"Error: GitHub token not provided",
                                 "Error: GitHub repository not provided",
                                 "No bugs found in bugs.json",
                                 "No bugs found with the specified IDs"}
              ELSE LastLine = DryRunReport

C10_Witness ==
    /\ DryRun /\ pc = "done" /\ LastLine = DryRunReport
    /\ Len(bugs.items) = MaxBugs /\ Truthy(args.ids)
    /\ \E i \in 1..Len(out) : out[i].msg = "Would create issue: "

AllConvertedReport == "All bugs have been converted to GitHub issues."

\* main has entered its for loop over the bugs
LoopStarted ==
    /\ script = "github"
    /\ \E i \in 1..Len(out) : out[i].msg = "Converting bugs to GitHub issues..."

\* the records of the file that main is to process: all of them, or with --ids
\* those whose id is one of the ids, in the order of the file
SelectedOfFile ==
    LET items == file.data.m.bugs.items
        chosen(b) == "id" \in DOMAIN b.m /\ \E k \in 1..Len(args.ids) : args.ids[k] = b.m.id
    IN IF Len(args.ids) = 0 THEN items ELSE SelectSeq(items, chosen)

IsIssuePost(r) == r.method = "POST" /\ r.url = IssuesUrl(args.repo)
IsDryTitle(l) == l.msg = "Would create issue: "
IsDryBody(l) == l.msg = "Body:"

\* the issues handled so far, in the order main handled them: the bodies of
\* the POSTs to /issues, or in a dry run the titles and bodies printed
IssuesPosted == SelectSeq(http, IsIssuePost)
TitlesPrinted == SelectSeq(out, IsDryTitle)
BodiesPrinted == SelectSeq(out, IsDryBody)

\* C11: the issues are posted (in a dry run printed) one per selected record, in
\* the order of the file's bugs sequence also when --ids names them in another
\* order; when main returns, every selected record was handled exactly once.
C11_FileOrderPreserved ==
    LoopStarted =>
        LET selected == SelectedOfFile
            posts == IssuesPosted
            titles == TitlesPrinted
            bodies == BodiesPrinted
            handled == IF args.dry_run THEN Len(titles) ELSE Len(posts)
        IN /\ handled <= Len(selected)
           /\ args.dry_run => Len(bodies) = handled
           /\ \A i \in 1..handled :
                 /\ selected[i].t = "map"
                 /\ LET issue == convert_bug_to_github_issue(selected[i].m)
                    IN IF args.dry_run
                       THEN titles[i].data = issue.title /\ bodies[i].data = issue.body
                       ELSE posts[i].json = issue
           /\ pc = "loop" /\ ~args.dry_run => idx = handled
           /\ pc = "done" => handled = Len(selected)

C11_Witness ==
    /\ LoopStarted /\ pc = "done" /\ ~args.dry_run
    /\ args.ids = <<<<"B","U","G","-","0","0","2">>, <<"B","U","G","-","0","0","1">>>>
    /\ Len(IssuesPosted) = 2
    /\ IssuesPosted[1].json.title = <<"B","U","G","-","0","0","1",":"," ","L","o","g","i","n"," ","f","a","i","l","s">>
    /\ IssuesPosted[2].json.title = <<"B","U","G","-","0","0","2",":"," ","S","l","o","w"," ","p","a","g","e">>

\* create_github_issue answered a POST that was not 201: it printed the error
\* and returned {}
IssueCreationFailed ==
    /\ script = "github"
    /\ \E i \in 1..Len(out) : out[i].msg = "Error creating issue"

\* C12: a failed issue creation is surfaced to main: a batch in which at least
\* one POST to /issues was not answered 201 does not end by reporting that all
\* bugs have been converted to GitHub issues.
C12_FailureIsSurfaced ==
    script = "github" /\ pc = "done" /\ IssueCreationFailed => LastLine # AllConvertedReport

\* C13: the mappers leave the module state and their input alone, and what
\* they return shares nothing with it: whatever calls were made and whatever a
\* caller did to the work items it was returned, BUGS is what the import loaded,
\* SAMPLE_WORK_ITEMS is the literal of the module, and the record given to
\* convert_bug_to_github_issue is the record it was.
C13_NoSharedState ==
    /\ SAMPLE_WORK_ITEMS = SampleWorkItems
    /\ script \in DevopsClients /\ pc = "ready" => BUGS = devops_load_bugs_from_json(file).value
    /\ \A c \in CallsOf("convert") : c.bug = args.bug

IsLabelPost(r) == r.method = "POST" /\ r.url = LabelsUrl(args.repo)

\* the label creations sent so far, in order
LabelPosts == SelectSeq(http, IsLabelPost)

\* the distinct non-empty severity and status values of the given bugs
WantedLabels == UNION {LabelValues(bugs.items[i].m) : i \in 1..Len(bugs.items)}

\* the label names the repository has, as far as the GET told
ExistingNames == IF response.status_code = 200 THEN response.names ELSE {}

\* create_github_labels has returned
LabelsReturned == (pc = "labelloop" /\ labels = {}) \/ LoopStarted

\* C14: once the GET of the labels is answered, only missing labels are POSTed
\* and none twice; a GET not answered 200 leaves nothing existing; when
\* create_github_labels returns, every distinct non-empty severity or status
\* that was missing has been POSTed, whatever the earlier POSTs answered.
C14_OnlyMissingLabelsCreated ==
    script = "github" /\ response # None =>
        LET posts == LabelPosts
            posted == {posts[i].json.name : i \in 1..Len(posts)}
            wanted == WantedLabels
            existing == ExistingNames
            returned == LabelsReturned
        IN /\ posted \subseteq wanted \ existing
           /\ Cardinality(posted) = Len(posts)
           /\ \A i \in 1..Len(posts) : posts[i].json = label_data(posts[i].json.name)
           /\ pc = "labelloop" => labels \cup posted \cup existing = wanted \cup existing
           /\ returned => posted = wanted \ existing
           /\ returned /\ response.status_code # 200 => posted = wanted

\* two bugs share the status Open, which the repository has; the POST of one
\* of the two missing labels is answered 422 and the other is still sent
C14_Witness ==
    /\ script = "github" /\ response # None /\ LabelsReturned
    /\ response.status_code = 200 /\ response.names = {<<"O","p","e","n">>}
    /\ Len(bugs.items) = 2
    /\ bugs.items[1].m = FullRecord /\ Get(bugs.items[2].m, "status", None) = <<"O","p","e","n">>
    /\ Len(LabelPosts) = 2
    /\ \E i \in 1..Len(out) :
          /\ out[i].msg = "Error creating label"
          /\ \E j \in (i + 1)..Len(out) : out[j].msg = "Created label: "

Next ==
    \/ DevopsImport
    \/ GetWorkItem
    \/ CallerModify
    \/ ConvertCall
    \/ VerifyMain
    \/ GhParse
    \/ GhLoad
    \/ GhFilter
    \/ GhLabels
    \/ GhLabelNext
    \/ GhConvertStart
    \/ GhIssue
    \/ GhFinish

Spec == Init /\ [][Next]_vars

====
